---- MODULE Spec2Model ----
(***************************************************************************)
(* The interactive run loop of the Hasseldorf emulator front end           *)
(* (src/main.rs, run_mode_default): frame throttle, input edge detector,   *)
(* engine step and cycle pacer, with the monotonic clock, the window and   *)
(* the stepping engine as nondeterministic collaborators.                  *)
(*                                                                         *)
(* Time is in nanoseconds.  An Instant is the number of nanoseconds since  *)
(* the first clock read; a Duration is a difference of two Instants, and   *)
(* as_secs / subsec_nanos split it the way std::time::Duration does.       *)
(***************************************************************************)
EXTENDS Integers, Sequences, FiniteSets, TLC

VARIABLES
    pc,                \* position of run_mode_default
    now,               \* value returned by the latest Instant::now()
    time_last_step,    \* main.rs:116
    time_last_render,  \* main.rs:117
    total_cycles,      \* main.rs:119
    previous_keys,     \* main.rs:120, a Vec<minifb::Key>
    keys_down,         \* result of the latest window.get_keys(): None or a Vec
    cycles,            \* main.rs:144, the step result as u32
    overflow_checks,   \* build profile: TRUE panics on u32 overflow, FALSE wraps
    io_down,           \* input sink: keys down after replaying every event
    io_odd,            \* input sink: keys that received an odd number of events
    iter_events,       \* events sent to the sink by the latest input stage
    last_snapshot,     \* most recent Some(..) returned by get_keys, or None
    last_present,      \* clock value read right after the latest present call
    presents,          \* present calls made in the current iteration
    frames,            \* present calls that returned Ok since the loop started
    spun,              \* the pacer of this iteration has failed a clock check
    iter,              \* iterations started
    stages,            \* stages the current iteration has performed, in order
    closed,            \* window.is_open() has returned false
    present_failed,    \* update_with_buffer has returned Err
    engine,            \* cycle counts the stepping engine may report (benchmark)
    calls,             \* emulator.step() calls made by the benchmark loop
    reported_cycles    \* cycle count printed by the benchmark report, 0 before it

vars == <<pc, now, time_last_step, time_last_render, total_cycles,
          previous_keys, keys_down, cycles, overflow_checks, io_down, io_odd,
          iter_events, last_snapshot, last_present, presents, frames, spun,
          iter, stages, closed, present_failed, engine, calls,
          reported_cycles>>

clockVars == <<now, time_last_step, time_last_render, last_present>>
inputVars == <<previous_keys, keys_down, io_down, io_odd, iter_events, last_snapshot>>
benchVars == <<engine, calls, reported_cycles>>

-----------------------------------------------------------------------------
(* Bounds of the exploration *)

\* the clock is followed up to this many nanoseconds
MaxNow == 1200000000
\* iterations followed when the clock environment is rich
MaxIter == 3
\* iterations followed when the key environment is rich
MaxKeyIter == 4
\* longest key snapshot the window reports
MaxHeld == 3
\* step calls of the benchmark loop that are followed
MaxCalls == 120001

(* Program constants *)

\* main.rs:123, the frame throttle threshold in nanoseconds
RENDER_THRESHOLD_NANOS == 13000000
\* main.rs:151, nanoseconds per cycle at 6 MHz
NANOS_PER_CYCLE == 167
\* std::time::Duration: nanoseconds in one second (main.rs:92)
NANOS_PER_SEC == 1000000000
\* one 16-bit limb of a u32
LIMB == 65536
\* main.rs:80
NORMAL_TIME_SECONDS == 20
\* main.rs:81
NORMAL_CYCLES_PER_SECOND == 6000000

\* Option<Vec<Key>>: None is the empty sequence, Some(v) the sequence holding v
None == <<>>

Some(v) == <<v>>

unwrap(o) == o[1]

-----------------------------------------------------------------------------
(* std::time::Duration *)

duration_since(later, earlier) == later - earlier

as_secs(d) == d \div NANOS_PER_SEC

subsec_nanos(d) == d % NANOS_PER_SEC

-----------------------------------------------------------------------------
(* u32 arithmetic of the pacer, on 16-bit limbs *)

\* cycles * 167u32 as the pair <<high limb with carry, low limb>>, unreduced
MulLimbs(c) ==
    LET lo == (c % LIMB) * NANOS_PER_CYCLE
        hi == (c \div LIMB) * NANOS_PER_CYCLE + (lo \div LIMB)
    IN  <<hi, lo % LIMB>>

\* cycles * 167u32 does not fit in 32 bits
MulOverflows(c) == MulLimbs(c)[1] >= LIMB

\* cycles * 167u32 reduced modulo 2^32, as <<high limb, low limb>>
WrappingMul(c) == <<MulLimbs(c)[1] % LIMB, MulLimbs(c)[2]>>

\* nanos > budget, for a u32 nanos below 2^31 and a budget given in limbs
GreaterThanLimbs(nanos, budget) ==
    \/ nanos \div LIMB > budget[1]
    \/ /\ nanos \div LIMB = budget[1]
       /\ nanos % LIMB > budget[2]

-----------------------------------------------------------------------------
(* Keys *)

\* minifb::Key values the window can report as held: two ordinary keys and
\* Unknown.  Count is the length marker of the enum, not a key: it is in the
\* domain of convert_key but never in a snapshot.
MinifbKeys == {"A", "B", "Unknown"}

\* main.rs:159-285: every key maps to the engine key of the same name,
\* and the Count marker maps to Unknown
convert_key(key) == IF key = "Count" THEN "Unknown" ELSE key

\* Vec::contains
contains(v, key) == \E i \in DOMAIN v : v[i] = key

SetOf(v) == {v[i] : i \in DOMAIN v}

\* key snapshots: each held key listed once, in any order
Snapshots ==
    {s \in UNION {[1..n -> MinifbKeys] : n \in 0..MaxHeld} :
        \A i, j \in DOMAIN s : i # j => s[i] # s[j]}

\* a first pass that forgets the contains test
DownPassNoTest(polled, previous) ==
    [i \in DOMAIN polled |-> [dir |-> "down", key |-> convert_key(polled[i])]]

\* a first pass with the contains test inverted
DownPassInverted(polled, previous) ==
    LET held == SelectSeq(polled, LAMBDA k : contains(previous, k))
    IN  [i \in DOMAIN held |-> [dir |-> "down", key |-> convert_key(held[i])]]

\* main.rs:131-135: one key_down per polled key that previous_keys lacks
RECURSIVE DownPass(_, _)
DownPass(polled, previous) ==
    IF polled = <<>> THEN <<>>
    ELSE (IF ~contains(previous, Head(polled))
            THEN <<[dir |-> "down", key |-> convert_key(Head(polled))]>>
            ELSE <<>>)
         \o DownPass(Tail(polled), previous)

\* a second pass pasted from the first: it walks the poll, not previous_keys
UpPassPasted(previous, polled) ==
    LET fresh == SelectSeq(polled, LAMBDA k : ~contains(previous, k))
    IN  [i \in DOMAIN fresh |-> [dir |-> "up", key |-> convert_key(fresh[i])]]

\* main.rs:136-140: one key_up per previous key that the poll lacks
RECURSIVE UpPass(_, _)
UpPass(previous, polled) ==
    IF previous = <<>> THEN <<>>
    ELSE (IF ~contains(polled, Head(previous))
            THEN <<[dir |-> "up", key |-> convert_key(Head(previous))]>>
            ELSE <<>>)
         \o UpPass(Tail(previous), polled)

\* an input stage that takes None for an empty snapshot
InputEventsNoneAsEmpty(polled, previous) ==
    IF polled = None THEN UpPass(previous, <<>>)
    ELSE DownPass(unwrap(polled), previous) \o UpPass(previous, unwrap(polled))

\* an input stage whose key_up loop runs before its key_down loop
InputEventsUpFirst(polled, previous) ==
    IF polled = None THEN <<>>
    ELSE UpPass(previous, unwrap(polled)) \o DownPass(unwrap(polled), previous)

\* main.rs:130-142: the events of one input stage, in dispatch order
InputEvents(polled, previous) ==
    IF polled = None THEN <<>>
    ELSE DownPass(unwrap(polled), previous) \o UpPass(previous, unwrap(polled))

\* a loop that never replaces previous_keys
NextPreviousKept(polled, previous) == previous

\* main.rs:141: the snapshot retained for the next iteration
NextPrevious(polled, previous) ==
    IF polled = None THEN previous ELSE unwrap(polled)

\* the sink replays events: key_down presses, key_up releases
RECURSIVE Replay(_, _)
Replay(events, down) ==
    IF events = <<>> THEN down
    ELSE Replay(Tail(events),
                IF Head(events).dir = "down"
                  THEN down \cup {Head(events).key}
                  ELSE down \ {Head(events).key})

\* the sink counts events per key, keeping the parity
RECURSIVE Parity(_, _)
Parity(events, odd) ==
    IF events = <<>> THEN odd
    ELSE Parity(Tail(events),
                IF Head(events).key \in odd
                  THEN odd \ {Head(events).key}
                  ELSE odd \cup {Head(events).key})

-----------------------------------------------------------------------------
(* Decisions of the throttle and of the pacer *)

\* a throttle with the comparison turned around
ThrottleDueBelow(since_last_render) ==
    subsec_nanos(since_last_render) < RENDER_THRESHOLD_NANOS

\* main.rs:123
ThrottleDue(since_last_render) ==
    subsec_nanos(since_last_render) > RENDER_THRESHOLD_NANOS

\* main.rs:151, once the product is known not to panic
PacerDone(since_last_step, c) ==
    GreaterThanLimbs(subsec_nanos(since_last_step), WrappingMul(c))

\* main.rs:151: the multiplication panics in a build with overflow checks
PacerPanics(c) == overflow_checks /\ MulOverflows(c)

-----------------------------------------------------------------------------
(* Environments *)

\* clock advances between two reads, rich
Ticks == {0, 5000000, 1000000000}
\* cycle counts a step reports, rich
StepCycles == {0, 1000000, 5988024, 25718368}
\* polls while the clock is rich
FewPolls == {None, Some(<<"A">>)}

\* clock advances between two reads while the keys are rich
KeyTicks == {5000000}
\* cycle counts while the keys are rich
KeyCycles == {1000000, 25718368}
\* polls, rich
Polls == {None} \cup {Some(s) : s \in Snapshots}

-----------------------------------------------------------------------------
(* Actions *)

Init ==
    /\ pc = "start"
    /\ now = 0
    /\ time_last_step = 0
    /\ time_last_render = 0
    /\ total_cycles = 0
    /\ previous_keys = <<>>
    /\ keys_down = None
    /\ cycles = 0
    /\ overflow_checks \in BOOLEAN
    /\ io_down = {}
    /\ io_odd = {}
    /\ iter_events = <<>>
    /\ last_snapshot = None
    /\ last_present = 0
    /\ presents = 0
    /\ frames = 0
    /\ spun = FALSE
    /\ iter = 0
    /\ stages = <<>>
    /\ closed = FALSE
    /\ present_failed = FALSE
    /\ engine = {}
    /\ calls = 0
    /\ reported_cycles = 0

\* main.rs:116-120
Start(ticks) ==
    /\ pc = "start"
    /\ \E t \in ticks :
        /\ t <= MaxNow - now
        /\ time_last_step' = now
        /\ now' = now + t
        /\ time_last_render' = now + t
        /\ last_present' = now + t
    /\ pc' = "loop"
    /\ UNCHANGED <<total_cycles, inputVars, cycles, overflow_checks,
                   presents, frames, spun, iter, stages, closed,
                   present_failed, benchVars>>

\* a loop that notes the closed window but goes on iterating
LoopTestIgnoresClose(limit) ==
    /\ pc = "loop"
    /\ iter < limit
    /\ \E is_open \in BOOLEAN :
        /\ pc' = "throttle"
        /\ iter' = iter + 1
        /\ presents' = 0
        /\ spun' = FALSE
        /\ stages' = <<>>
        /\ closed' = (closed \/ ~is_open)
    /\ UNCHANGED <<clockVars, total_cycles, inputVars, cycles, overflow_checks,
                   frames, present_failed, benchVars>>

\* main.rs:121
LoopTest(limit) ==
    /\ pc = "loop"
    /\ iter < limit
    /\ \E is_open \in BOOLEAN :
        IF is_open
          THEN /\ pc' = "throttle"
               /\ iter' = iter + 1
               /\ presents' = 0
               /\ spun' = FALSE
               /\ stages' = <<>>
               /\ closed' = closed
          ELSE /\ pc' = "exited"
               /\ closed' = TRUE
               /\ UNCHANGED <<iter, presents, spun, stages>>
    /\ UNCHANGED <<clockVars, total_cycles, inputVars, cycles, overflow_checks,
                   frames, present_failed, benchVars>>

\* a throttle that resets time_last_render on every check
ThrottleCheckResets(ticks) ==
    /\ pc = "throttle"
    /\ \E t \in ticks :
        /\ t <= MaxNow - now
        /\ now' = now + t
        /\ time_last_render' = now + t
        /\ pc' = IF ThrottleDue(duration_since(now + t, time_last_render))
                   THEN "present" ELSE "input"
    /\ stages' = Append(stages, "throttle")
    /\ UNCHANGED <<time_last_step, last_present,
                   total_cycles, inputVars, cycles, overflow_checks,
                   presents, frames, spun, iter, closed, present_failed,
                   benchVars>>

\* main.rs:122-123
ThrottleCheck(ticks) ==
    /\ pc = "throttle"
    /\ \E t \in ticks :
        /\ t <= MaxNow - now
        /\ now' = now + t
        /\ pc' = IF ThrottleDue(duration_since(now + t, time_last_render))
                   THEN "present" ELSE "input"
    /\ stages' = Append(stages, "throttle")
    /\ UNCHANGED <<time_last_step, time_last_render, last_present,
                   total_cycles, inputVars, cycles, overflow_checks,
                   presents, frames, spun, iter, closed, present_failed,
                   benchVars>>

\* a present whose error is dropped instead of unwrapped
PresentIgnoresErr(ticks) ==
    /\ pc = "present"
    /\ presents' = presents + 1
    /\ stages' = Append(stages, "present")
    /\ \/ \E t \in ticks :
            /\ t <= MaxNow - now
            /\ now' = now + t
            /\ time_last_render' = now + t
            /\ last_present' = now + t
            /\ frames' = frames + 1
            /\ pc' = "input"
            /\ present_failed' = present_failed
       \/ /\ pc' = "input"
          /\ present_failed' = TRUE
          /\ UNCHANGED <<now, time_last_render, last_present, frames>>
    /\ UNCHANGED <<time_last_step, total_cycles, inputVars, cycles,
                   overflow_checks, spun, iter, closed, benchVars>>

\* main.rs:124-127
Present(ticks) ==
    /\ pc = "present"
    /\ presents' = presents + 1
    /\ stages' = Append(stages, "present")
    /\ \/ \E t \in ticks :
            /\ t <= MaxNow - now
            /\ now' = now + t
            /\ time_last_render' = now + t
            /\ last_present' = now + t
            /\ frames' = frames + 1
            /\ pc' = "input"
            /\ present_failed' = present_failed
       \/ /\ pc' = "panicked"
          /\ present_failed' = TRUE
          /\ UNCHANGED <<now, time_last_render, last_present, frames>>
    /\ UNCHANGED <<time_last_step, total_cycles, inputVars, cycles,
                   overflow_checks, spun, iter, closed, benchVars>>

\* main.rs:130-142
Input(polls) ==
    /\ pc = "input"
    /\ \E polled \in polls :
        /\ keys_down' = polled
        /\ iter_events' = InputEvents(polled, previous_keys)
        /\ io_down' = Replay(InputEvents(polled, previous_keys), io_down)
        /\ io_odd' = Parity(InputEvents(polled, previous_keys), io_odd)
        /\ previous_keys' = NextPrevious(polled, previous_keys)
        /\ last_snapshot' = IF polled = None THEN last_snapshot ELSE polled
    /\ pc' = "step"
    /\ stages' = Append(stages, "input")
    /\ UNCHANGED <<clockVars, total_cycles, cycles, overflow_checks,
                   presents, frames, spun, iter, closed, present_failed,
                   benchVars>>

\* an iteration that steps the engine twice
StepTwice(stepCycles) ==
    /\ pc = "step"
    /\ \E c1, c2 \in stepCycles :
        /\ cycles' = c2
        /\ total_cycles' = total_cycles + c1 + c2
    /\ pc' = "pace"
    /\ stages' = stages \o <<"step", "step">>
    /\ UNCHANGED <<clockVars, inputVars, overflow_checks, presents, frames,
                   spun, iter, closed, present_failed, benchVars>>

\* main.rs:144-145
Step(stepCycles) ==
    /\ pc = "step"
    /\ \E c \in stepCycles :
        /\ cycles' = c
        /\ total_cycles' = total_cycles + c
    /\ pc' = "pace"
    /\ stages' = Append(stages, "step")
    /\ UNCHANGED <<clockVars, inputVars, overflow_checks, presents, frames,
                   spun, iter, closed, present_failed, benchVars>>

\* main.rs:148-151 and 154
PaceCheck(ticks) ==
    /\ pc = "pace"
    /\ \E t \in ticks :
        /\ t <= MaxNow - now
        /\ now' = now + t
        /\ IF PacerPanics(cycles)
             THEN pc' = "panicked" /\ spun' = spun
             ELSE IF PacerDone(duration_since(now + t, time_last_step), cycles)
                    THEN pc' = "pace_mark" /\ spun' = spun
                    ELSE pc' = "pace" /\ spun' = TRUE
    /\ UNCHANGED <<time_last_step, time_last_render, last_present,
                   total_cycles, inputVars, cycles, overflow_checks,
                   presents, frames, iter, stages, closed, present_failed,
                   benchVars>>

\* main.rs:152-153
PaceMark(ticks) ==
    /\ pc = "pace_mark"
    /\ \E t \in ticks :
        /\ t <= MaxNow - now
        /\ now' = now + t
        /\ time_last_step' = now + t
    /\ pc' = "loop"
    /\ stages' = Append(stages, "pace")
    /\ UNCHANGED <<time_last_render, last_present, total_cycles, inputVars,
                   cycles, overflow_checks, presents, frames, spun, iter,
                   closed, present_failed, benchVars>>

Next ==
    \/ Start(Ticks)
    \/ LoopTest(MaxIter)
    \/ ThrottleCheck(Ticks)
    \/ Present(Ticks)
    \/ Input(FewPolls)
    \/ Step(StepCycles)
    \/ PaceCheck(Ticks)
    \/ PaceMark(Ticks)

Spec == Init /\ [][Next]_vars

NextKeys ==
    \/ Start(KeyTicks)
    \/ LoopTest(MaxKeyIter)
    \/ ThrottleCheck(KeyTicks)
    \/ Present(KeyTicks)
    \/ Input(Polls)
    \/ Step(KeyCycles)
    \/ PaceCheck(KeyTicks)
    \/ PaceMark(KeyTicks)

SpecKeys == Init /\ [][NextKeys]_vars

-----------------------------------------------------------------------------
(* Benchmark mode, run_mode_benchmark *)

\* main.rs:82
bench_cycles == NORMAL_TIME_SECONDS * NORMAL_CYCLES_PER_SECOND

\* stepping engines: each reports, at every call, one of these cycle counts
BenchEngines == {{0}, {1000}, {12000000}, {7000000, 50000000}}

\* a loop test that also runs when the target is just met
BenchContinueInclusive(total) == total <= bench_cycles

\* main.rs:86
BenchContinue(total) == total < bench_cycles

\* an accumulation that assigns instead of adding
BenchAccumulateAssign(total, c) == c

\* main.rs:87
BenchAccumulate(total, c) == total + c

\* main.rs:79-85, with the engine chosen
InitBench ==
    /\ pc = "bench_loop"
    /\ now = 0
    /\ time_last_step = 0
    /\ time_last_render = 0
    /\ total_cycles = 0
    /\ previous_keys = <<>>
    /\ keys_down = None
    /\ cycles = 0
    /\ overflow_checks = FALSE
    /\ io_down = {}
    /\ io_odd = {}
    /\ iter_events = <<>>
    /\ last_snapshot = None
    /\ last_present = 0
    /\ presents = 0
    /\ frames = 0
    /\ spun = FALSE
    /\ iter = 0
    /\ stages = <<>>
    /\ closed = FALSE
    /\ present_failed = FALSE
    /\ engine \in BenchEngines
    /\ calls = 0
    /\ reported_cycles = 0

\* main.rs:86-87: the loop test holds and the engine is stepped once;
\* cycles keeps the count that step reported
BenchStep ==
    /\ pc = "bench_loop"
    /\ BenchContinue(total_cycles)
    /\ calls < MaxCalls
    /\ \E c \in engine :
        /\ cycles' = c
        /\ total_cycles' = BenchAccumulate(total_cycles, c)
    /\ calls' = calls + 1
    /\ UNCHANGED <<pc, clockVars, inputVars, overflow_checks, presents, frames,
                   spun, iter, stages, closed, present_failed, engine,
                   reported_cycles>>

\* main.rs:86 and 90-98: the loop test fails and the report is printed; its
\* cycle count is the argument bench_cycles of println!
BenchReport ==
    /\ pc = "bench_loop"
    /\ ~BenchContinue(total_cycles)
    /\ pc' = "bench_done"
    /\ reported_cycles' = bench_cycles
    /\ UNCHANGED <<clockVars, total_cycles, inputVars, cycles, overflow_checks,
                   presents, frames, spun, iter, stages, closed,
                   present_failed, engine, calls>>

NextBench ==
    \/ BenchStep
    \/ BenchReport

\* the loop is sequential code that keeps running: a step or the report that
\* can be taken is taken
SpecBench == InitBench /\ [][NextBench]_vars /\ WF_vars(NextBench)

-----------------------------------------------------------------------------
(* Event sets of one input stage *)

DownKeys(events) == {events[i].key : i \in {j \in DOMAIN events : events[j].dir = "down"}}

UpKeys(events) == {events[i].key : i \in {j \in DOMAIN events : events[j].dir = "up"}}

Converted(keys) == {convert_key(k) : k \in keys}

DownEvent(k) == [dir |-> "down", key |-> k]

UpEvent(k) == [dir |-> "up", key |-> k]

-----------------------------------------------------------------------------
(* Properties *)

\* C1: in an iteration whose poll returns a snapshot, key_down goes to exactly
\* the keys of current minus previous and key_up to exactly the keys of
\* previous minus current, one event per such key.
C1_EdgeEvents ==
    [][(pc = "input" /\ keys_down' # None) =>
        LET current == SetOf(unwrap(keys_down'))
            previous == SetOf(previous_keys)
        IN  /\ DownKeys(iter_events') = Converted(current \ previous)
            /\ UpKeys(iter_events') = Converted(previous \ current)
            /\ Len(iter_events') = Cardinality(current \ previous)
                                    + Cardinality(previous \ current)]_vars

\* the fourth snapshot of {A}, {A,B}, {B}, {}: only up(B) is sent
C1_Witness ==
    /\ pc = "step"
    /\ iter = 4
    /\ keys_down = Some(<<>>)
    /\ iter_events = <<UpEvent("B")>>

\* C2: replaying all events from all-keys-up leaves a key down iff its event
\* count is odd, and the keys down are the retained snapshot, which is the
\* latest snapshot the poll returned.
C2_Reconstruction ==
    /\ io_down = io_odd
    /\ io_down = Converted(SetOf(previous_keys))
    /\ previous_keys = IF last_snapshot = None THEN <<>> ELSE unwrap(last_snapshot)

\* snapshots, then a poll of None, with two keys still held
C2_Witness ==
    /\ pc = "step"
    /\ iter = 4
    /\ keys_down = None
    /\ io_down = {"A", "Unknown"}
    /\ previous_keys = <<"Unknown", "A">>

\* C3: the keys given key_down and the keys given key_up in one input stage
\* are disjoint.
C3_Disjoint == DownKeys(iter_events) \cap UpKeys(iter_events) = {}

\* one stage that sends both a key_down and a key_up
C3_Witness ==
    /\ pc = "step"
    /\ DownKeys(iter_events) = {"B"}
    /\ UpKeys(iter_events) = {"A", "Unknown"}

\* C4: the first snapshot the poll returns meets an empty previous snapshot:
\* one key_down per held key, in the order polled, and no key_up.
C4_FirstSnapshot ==
    [][(pc = "input" /\ last_snapshot = None /\ keys_down' # None) =>
        /\ previous_keys = <<>>
        /\ iter_events' = [i \in DOMAIN unwrap(keys_down') |->
                              DownEvent(convert_key(unwrap(keys_down')[i]))]
        /\ UpKeys(iter_events') = {}]_vars

\* a first snapshot listing B before A, after an iteration that polled None
C4_Witness ==
    /\ pc = "step"
    /\ iter = 2
    /\ last_snapshot = Some(<<"B", "A">>)
    /\ keys_down = last_snapshot
    /\ iter_events = <<DownEvent("B"), DownEvent("A")>>

\* C5: when the poll returns None no event is sent and previous_keys is kept,
\* and the step and the pacer follow.
C5_NoneSkipsInput ==
    /\ [][(pc = "input" /\ keys_down' = None) =>
            /\ iter_events' = <<>>
            /\ io_down' = io_down
            /\ io_odd' = io_odd
            /\ previous_keys' = previous_keys
            /\ pc' = "step"]_vars
    /\ [][pc = "step" => pc' = "pace"]_vars

\* the pacer runs in an iteration that polled None with keys held
C5_Witness ==
    /\ pc = "pace"
    /\ keys_down = None
    /\ previous_keys = <<"A", "B">>
    /\ io_down = {"A", "B"}

\* C6: the throttle presents iff the time elapsed since time_last_render
\* exceeds the threshold, and presenting resets time_last_render to now.
C6_ThrottleDecision ==
    /\ [][pc = "throttle" =>
            (pc' = "present" <=>
                duration_since(now', time_last_render) > RENDER_THRESHOLD_NANOS)]_vars
    /\ [][(pc = "present" /\ pc' = "input") => time_last_render' = now']_vars

\* C7: a presentation starts more than the threshold after the previous one
\* ended (or after the loop started), and an iteration presents at most once.
C7_PresentSpacing ==
    /\ pc = "present" => duration_since(now, last_present) > RENDER_THRESHOLD_NANOS
    /\ presents <= 1

\* a second presentation is due, one iteration after the first
C7_Witness ==
    /\ pc = "present"
    /\ iter = 3
    /\ frames = 1
    /\ as_secs(duration_since(now, last_present)) = 0

\* C8: the pacer leaves its loop only once cycles x 167 ns have elapsed since
\* time_last_step.
C8_PacerLowerBound ==
    pc = "pace_mark" =>
        duration_since(now, time_last_step) \div NANOS_PER_CYCLE >= cycles

\* C9: while the pacer spins, some clock reading makes it leave the loop and
\* return to the run loop.
C9_PacerCanExit ==
    pc = "pace" => /\ ~PacerPanics(cycles)
                   /\ PacerDone(NANOS_PER_SEC - 1, cycles)

\* C10: with cycles = 0 the pacer leaves its loop on the first clock check.
C10_ZeroCyclesNoSpin == (pc = "pace" /\ cycles = 0) => ~spun

-----------------------------------------------------------------------------
(* Stage orders of one iteration *)

StagesSkipping == <<"throttle", "input", "step", "pace">>

StagesPresenting == <<"throttle", "present", "input", "step", "pace">>

IsPrefix(s, t) == Len(s) <= Len(t) /\ \A i \in DOMAIN s : s[i] = t[i]

FullIteration(s) == s \in {StagesSkipping, StagesPresenting}

\* C11: the stages of an iteration run in the order throttle (with its
\* present), input, one step, pacer, none repeated; the input stage is the
\* stage right before the step, and a finished iteration ran them all.
C11_StageOrder ==
    /\ IsPrefix(stages, StagesSkipping) \/ IsPrefix(stages, StagesPresenting)
    /\ pc = "pace" => /\ stages[Len(stages)] = "step"
                      /\ stages[Len(stages) - 1] = "input"
    /\ (pc = "loop" /\ iter > 0) => FullIteration(stages)

\* a second iteration that presented has finished
C11_Witness ==
    /\ pc = "loop"
    /\ iter = 2
    /\ stages = StagesPresenting
    /\ total_cycles = 2000000

\* C12 as stated: after is_open returns false the loop has exited, and the
\* loop is never left in the middle of an iteration.
C12_AlwaysAllStages ==
    /\ closed => pc = "exited"
    /\ (pc \in {"exited", "panicked"} /\ iter > 0) => FullIteration(stages)

\* C12 amended: after is_open returns false the loop has exited and nothing
\* further runs, and the loop exits through is_open only between iterations,
\* the last one having run all its stages.
C12_ExitBetweenIterations ==
    /\ closed <=> pc = "exited"
    /\ (pc = "exited" /\ iter > 0) => FullIteration(stages)

\* the window closes after two iterations, one of which presented
C12_Witness ==
    /\ pc = "exited"
    /\ closed
    /\ iter = 2
    /\ frames = 1

\* C13: after update_with_buffer returns Err the loop is dead: the present
\* call is the last stage performed and time_last_render keeps the mark of
\* the last present that succeeded.
C13_PresentFailureFatal ==
    present_failed =>
        /\ pc = "panicked"
        /\ stages[Len(stages)] = "present"
        /\ presents = 1
        /\ time_last_render = last_present

\* a present fails after an earlier one succeeded
C13_Witness ==
    /\ present_failed
    /\ frames = 1
    /\ iter = 3
    /\ now > time_last_render

\* C16: time_last_render changes only when a frame is presented; a check
\* that skips leaves it, and below one second the check presents exactly
\* when the accumulated elapsed time exceeds the threshold.
C16_RenderMarkOnlyOnPresent ==
    /\ [][time_last_render' # time_last_render =>
            \/ pc = "start"
            \/ pc = "present" /\ frames' = frames + 1 /\ time_last_render' = now']_vars
    /\ [][(pc = "throttle" /\ pc' = "input") =>
            time_last_render' = time_last_render]_vars
    /\ [][(pc = "throttle"
            /\ as_secs(duration_since(now', time_last_render)) = 0) =>
            (pc' = "present" <=>
                duration_since(now', time_last_render) > RENDER_THRESHOLD_NANOS)]_vars

\* the third check, 15 ms after the mark, is the first to present
C16_Witness ==
    /\ pc = "present"
    /\ iter = 3
    /\ frames = 0
    /\ duration_since(now, time_last_render) = 15000000

\* C17: the product cycles * 167 fits in 32 bits for every cycle count the
\* pacer is entered with.
C17_BudgetNoWraparound == pc \in {"pace", "pace_mark"} => ~MulOverflows(cycles)

\* C18: when the pacer leaves its loop, the time elapsed since the first
\* time_last_step mark (clock value 0) exceeds 167 ns x total_cycles.
C18_EmulatedNotAhead ==
    pc = "pace_mark" =>
        \/ now \div NANOS_PER_CYCLE > total_cycles
        \/ /\ now \div NANOS_PER_CYCLE = total_cycles
           /\ now % NANOS_PER_CYCLE > 0

\* C20: in one input stage every key_down precedes every key_up, the key_up
\* events are those of the old previous_keys in its order, and previous_keys
\* is the polled snapshot afterwards.
C20_DownsBeforeUps ==
    [][(pc = "input" /\ keys_down' # None) =>
        LET polled == unwrap(keys_down')
            ups == SelectSeq(previous_keys, LAMBDA k : ~contains(polled, k))
            n == Len(iter_events') - Len(ups)
        IN  /\ n >= 0
            /\ \A i \in 1..n : iter_events'[i].dir = "down"
            /\ \A i \in 1..Len(ups) :
                   iter_events'[n + i] = UpEvent(convert_key(ups[i]))
            /\ DownKeys(iter_events') = Converted(SetOf(polled) \ SetOf(previous_keys))
            /\ previous_keys' = polled]_vars

\* a stage that sends down(B) and then up(A), up(Unknown)
C20_Witness ==
    /\ pc = "step"
    /\ iter_events = <<DownEvent("B"), UpEvent("A"), UpEvent("Unknown")>>
    /\ previous_keys = <<"B">>

\* C14: the benchmark steps until the accumulated total first meets the
\* target: it never steps once the target is met, on completion
\* total >= target > total - last step, and an engine that always reports s
\* cycles completes in exactly ceil(target / s) calls (10 calls of 12,000,000
\* for the target 120,000,000, the ratio of 1000 to 10,000).
C14_BenchStopsAtTarget ==
    /\ calls > 0 => total_cycles - cycles < bench_cycles
    /\ pc = "bench_done" =>
        /\ total_cycles >= bench_cycles
        /\ calls > 0
        /\ \A s \in engine :
             engine = {s} =>
                /\ total_cycles = calls * s
                /\ (calls - 1) * s < bench_cycles
                /\ calls * s >= bench_cycles

\* ten steps of 12,000,000 cycles complete the benchmark
C14_Witness ==
    /\ pc = "bench_done"
    /\ engine = {12000000}
    /\ calls = 10
    /\ total_cycles = bench_cycles

\* C15: the cycle count the benchmark reports is the accumulated total.
C15_ReportsTotal == pc = "bench_done" => reported_cycles = total_cycles

\* C19: with every step reporting at least one cycle the benchmark
\* completes, within target calls; with an engine that reports 0 forever the
\* total stays 0 and the loop test never fails.
C19_BenchTermination ==
    /\ []((0 \notin engine /\ pc \in {"bench_loop", "bench_done"}) =>
            /\ calls <= total_cycles
            /\ calls <= bench_cycles)
    /\ [](engine = {0} =>
            /\ pc = "bench_loop"
            /\ total_cycles = 0
            /\ BenchContinue(total_cycles))
    /\ [](0 \notin engine => <>(pc = "bench_done"))

\* the 1000-cycle engine completes after 120,000 calls
C19_Witness ==
    /\ pc = "bench_done"
    /\ engine = {1000}
    /\ calls = 120000

====
